---- MODULE Spec2Model ----
(***************************************************************************)
(* Model of utu/runner/react_runner.py: ReactRunner.run_streamed and the   *)
(* background task ReactRunner._streaming_loop, with the turn executor     *)
(* _run_single_turn_streamed.  One action is the code the task runs        *)
(* between two suspension points (awaits); the caller of the result handle *)
(* may request cancel-after-turn between any two of them.                  *)
(***************************************************************************)
EXTENDS Integers, Sequences, FiniteSets, TLC

\* ---------------------------------------------------------------- bounds
\* largest max_turns a caller passes to run_streamed
MaxTurnsBound == 2
\* largest number of raw deltas the model streams deliver over one run
MaxDeltas == 1

\* total_tokens a model that reports usage reports for one response
TokensPerResponse == 3
\* largest number of operations (build, tool call, cleanup) invoked on a SandboxEnv
MaxSandboxOps == 3
\* number of executions of execute_python_code_sync submitted to the executor
NumExecutions == 2

\* ------------------------------------------------------------- constants
\* Python's None for final_output (an output value is the number of the turn
\* whose directive carried it, so it is never 0)
None == 0

\* the handoff target of an agent: the other agent
OtherAgent(a) == IF a = "A" THEN "B" ELSE "A"

VARIABLES
    \* arguments of run_streamed and the runner configuration
    max_turns, on_max_turns, session, starting_input, session_input_callback,
    \* the caller's environment: an ambient trace, a model that reports usage
    ambient_trace, model_reports_usage,
    \* locals of _streaming_loop / _run_single_turn_streamed
    pc, current_agent, current_turn, should_run_agent_start_hooks,
    current_span, final_response, deltas, turn_result,
    \* fields of the RunResultStreaming handle
    sr_input, new_items, sr_current_agent, raw_responses, final_output,
    is_complete, cancel_mode, event_queue,
    \* tracing, session store, the background task's outcome
    spans, trace, session_items, task_exception,
    \* history of the run
    exit_path, model_calls, final_output_sets, handoff_turns, handoffs,
    cancel_pc, cancel_calls, cancel_turn,
    \* context_wrapper.usage, and the calls made to hooks, model and tools
    usage, call_log,
    \* input_items of the latest model call, and where the task was when it raised
    model_input, raise_pc,
    \* utu/env/sandbox_env.py: the fields of one SandboxEnv, the operation in
    \* progress, the HTTP requests sent, the value _call_step returned last
    session_id, http_client, last_state, last_delta, last_raw_response,
    sb_pc, sb_ops, sb_requests, sb_returned, sb_response, sb_before,
    \* utu/tools/local_env/python.py: the process working directory and the
    \* executions of execute_python_code_sync in executor threads
    cwd, py_pc, original_dir, ran_in, files_before_in, files_after_in, timed_out

cfgVars == <<max_turns, on_max_turns, session, starting_input, session_input_callback,
             ambient_trace, model_reports_usage>>
logVars == <<usage, call_log, model_input>>
localVars == <<current_agent, current_turn, should_run_agent_start_hooks,
               final_response, deltas, turn_result>>
handleVars == <<sr_input, new_items, sr_current_agent, raw_responses, final_output>>
cancelVars == <<cancel_mode, cancel_pc, cancel_calls, cancel_turn>>
endVars == <<pc, is_complete, event_queue, spans, current_span, trace,
             exit_path, task_exception, raise_pc>>
histVars == <<model_calls, final_output_sets, handoff_turns, handoffs>>
sandboxVars == <<session_id, http_client, last_state, last_delta, last_raw_response,
                 sb_pc, sb_ops, sb_requests, sb_returned, sb_response, sb_before>>
pythonVars == <<cwd, py_pc, original_dir, ran_in, files_before_in, files_after_in, timed_out>>
envVars == <<sandboxVars, pythonVars>>
runnerVars == <<cfgVars, logVars, localVars, handleVars, cancelVars, endVars, histVars,
                session_items>>
vars == <<cfgVars, logVars, localVars, handleVars, cancelVars, endVars, histVars,
          session_items, envVars>>

\* ------------------------------------------------------------ data values
\* events put on streamed_result._event_queue
AgentUpdatedStreamEvent(a) == [type |-> "agent_updated", agent |-> a, turn |-> 0, item |-> "-"]
RawResponsesStreamEvent(t, what) == [type |-> "raw", agent |-> "-", turn |-> t, item |-> what]
RunItemStreamEvent(i) == [type |-> "run_item", agent |-> "-", turn |-> i.turn, item |-> i.kind]
QueueCompleteSentinel == [type |-> "sentinel", agent |-> "-", turn |-> 0, item |-> "-"]

\* a run item generated in turn t
RunItem(t, k) == [turn |-> t, kind |-> k]

\* RunItem.to_input_item(): the input-item form of a generated item
ToInputItem(i) ==
    [turn |-> i.turn,
     type |-> CASE i.kind = "message_output_item" -> "message"
                [] i.kind = "tool_call_item" -> "function_call"
                [] i.kind = "handoff_call_item" -> "function_call"
                [] OTHER -> "function_call_output",
     name |-> CASE i.kind \in {"tool_call_item", "tool_call_output_item"} -> "tool"
                [] i.kind \in {"handoff_call_item", "handoff_output_item"} -> "transfer"
                [] OTHER -> ""]

ToInputItems(items) == [n \in 1..Len(items) |-> ToInputItem(items[n])]

\* the caller's input: a plain string, or a list of input items
UserMessage(n) == [turn |-> 0, type |-> "message", name |-> n]
StrInput == [kind |-> "str", items |-> <<>>]
ListInput(items) == [kind |-> "list", items |-> items]

\* ItemHelpers.input_to_new_input_list: a string becomes one user message,
\* a list is copied
InputToNewInputList(inp) ==
    IF inp.kind = "str" THEN <<UserMessage("user")>> ELSE inp.items

HistoryItem == UserMessage("history")
\* what session.get_items() returns when the run starts
InitialHistory == <<HistoryItem, UserMessage("history2")>>

\* one call made by the loop: a hook pair (global and per-agent together),
\* the model, or the tool and side-effect collaborator
Call(what, t, a) == [what |-> what, turn |-> t, agent |-> a]

\* Usage(): all counters 0
NoUsage == [requests |-> 0, total_tokens |-> 0]

NoTurnResult == [next_step |-> "none", new_agent |-> "-", output |-> None,
                 new_step_items |-> <<>>]

Count(q, ty) == Cardinality({n \in 1..Len(q) : q[n].type = ty})

\* ------------------------------------------------------- pieces of the code
\* run_streamed: a trace is created only when no ambient trace is active
NewTrace(ambient) == IF ambient THEN "none" ELSE "created"

\* trace.start / trace.finish, guarded by `if streamed_result.trace`
StartTrace(tr) == IF tr = "none" THEN tr ELSE "started"

\* a finally block that leaves the trace as it is
FinishTraceNever(tr) == tr

FinishTrace(tr) == IF tr = "none" THEN tr ELSE "finished"

\* agent_span(...).start(): a new open span for agent a
AgentSpan(a) == [agent |-> a, finished |-> 0, error |-> FALSE]

\* `if current_span: current_span.finish(reset_current=True)`; 0 is no span
FinishSpan(sp, cs) == IF cs = 0 THEN sp ELSE [sp EXCEPT ![cs].finished = @ + 1]

\* a limit that leaves the span unmarked
AttachErrorNever(sp, cs) == sp

\* _error_tracing.attach_error_to_span(current_span, SpanError("Max turns exceeded"))
AttachError(sp, cs) == IF cs = 0 THEN sp ELSE [sp EXCEPT ![cs].error = TRUE]

\* checkpoints that never see the flag
CancelNeverSeen == FALSE

\* the cancellation checkpoints: `streamed_result._cancel_mode == "after_turn"`
CancelRequested == cancel_mode = "after_turn"

\* a loop that does not look at is_complete at its top
CompleteBreaksNever(done) == FALSE

\* `if streamed_result.is_complete: break` at the top of the loop
CompleteBreaks(done) == done

\* a span opened for every turn
NeedsSpanEveryTurn(cs) == TRUE

\* `if current_span is None` before a span is opened
NeedsSpan(cs) == cs = 0

\* a handoff that announces nothing
HandoffEventMissing(q, a) == q

\* the handoff branch's `put_nowait(AgentUpdatedStreamEvent(new_agent=current_agent))`
HandoffEvent(q, a) == Append(q, AgentUpdatedStreamEvent(a))

\* a loop without a turn limit
MaxTurnsNeverExceeded(t) == FALSE

\* a limit check that is off by one
MaxTurnsExceededLate(t) == t > max_turns + 1

\* the turn-limit check: `if current_turn > max_turns`
MaxTurnsExceeded(t) == t > max_turns

\* an except block that enqueues nothing
ExceptSentinelMissing(q) == q

\* the except block's `put_nowait(QueueCompleteSentinel())`
ExceptSentinel(q) == Append(q, QueueCompleteSentinel)

\* the finally block's `if not streamed_result.is_complete` sentinel
FinallyQueue(done, q) == IF done THEN q ELSE Append(q, QueueCompleteSentinel)

\* the caller's merge callback: it keeps the newest history item and the new
\* input
SessionInputCallback(history, new_input) ==
    SubSeq(history, Len(history), Len(history)) \o new_input

\* `res = session_input_callback(history, new_input_list)`: an async callback
\* returns a coroutine that resolves to the merged list
CallCallback(callback, history, new_input) ==
    [awaitable |-> callback = "async", value |-> SessionInputCallback(history, new_input)]

\* a result that is returned as it is, awaitable or not
ReturnedUnawaited(res) ==
    IF res.awaitable THEN [kind |-> "coroutine", items |-> res.value]
    ELSE ListInput(res.value)

\* `if inspect.isawaitable(res): return await res` / `return res`
AwaitIfAwaitable(res) == ListInput(res.value)

\* a preparation that merges the history as it is after the input was saved
PrepareInputAfterSave(inp, hasSession, callback, history) ==
    IF ~hasSession THEN inp
    ELSE IF callback = "none"
    THEN ListInput(history \o InputToNewInputList(inp) \o InputToNewInputList(inp))
    ELSE AwaitIfAwaitable(CallCallback(callback, history \o InputToNewInputList(inp),
                                       InputToNewInputList(inp)))

\* _prepare_input_with_session on the paths that return; callback is "none",
\* "sync" or "async"
PrepareInputWithSession(inp, hasSession, callback, history) ==
    IF ~hasSession THEN inp
    ELSE IF callback = "none" THEN ListInput(history \o InputToNewInputList(inp))
    ELSE AwaitIfAwaitable(CallCallback(callback, history, InputToNewInputList(inp)))

\* the first UserError check of _prepare_input_with_session
ListInputNeedsCallback(inp, hasSession, callback) ==
    hasSession /\ inp.kind = "list" /\ callback = "none"

\* the last branch of _prepare_input_with_session: a callback that is set and
\* is not callable
InvalidCallback(hasSession, callback) ==
    hasSession /\ callback = "invalid"

\* a response usage that is always counted as one request
ResponseUsageAlways(reports) == [requests |-> 1, total_tokens |-> TokensPerResponse]

\* `Usage(requests=1, ...) if event.response.usage else Usage()`
ResponseUsage(reports) ==
    IF reports THEN [requests |-> 1, total_tokens |-> TokensPerResponse] ELSE NoUsage

\* Usage.add
UsageAdd(u, other) ==
    [requests |-> u.requests + other.requests,
     total_tokens |-> u.total_tokens + other.total_tokens]

\* a model input that carries the run's input only
ModelInputWithoutItems(inp, items) == InputToNewInputList(inp)

\* `input_items = input_to_new_input_list(streamed_result.input)` extended by
\* `[item.to_input_item() for item in streamed_result.new_items]`
ModelInput(inp, items) == InputToNewInputList(inp) \o ToInputItems(items)

\* a stream's end that is never an error
NoFinalResponseIgnored(fr) == FALSE

\* `if not final_response: raise ModelBehaviorError(...)`
NoFinalResponse(fr) == fr = "none"

\* a turn counter that skips a number
NextTurnSkips(t) == t + 2

\* `current_turn += 1; streamed_result.current_turn = current_turn`
NextTurn(t) == t + 1

\* a loop that never clears the flag
HooksFlagKept(flag) == flag

\* `should_run_agent_start_hooks = False` after a turn
HooksFlagAfterTurn(flag) == FALSE

\* a save that loses the generated items
ItemsToSaveInputOnly(original_input, items) == InputToNewInputList(original_input)

\* _save_result_to_session: what session.add_items receives
ItemsToSave(original_input, items) ==
    InputToNewInputList(original_input) \o ToInputItems(items)

\* a save that is skipped once cancellation is requested
SaveResultUnlessCancelled(store, hasSession, original_input, items) ==
    IF hasSession /\ cancel_mode # "after_turn"
    THEN store \o ItemsToSave(original_input, items) ELSE store

SaveResultToSession(store, hasSession, original_input, items) ==
    IF hasSession THEN store \o ItemsToSave(original_input, items) ELSE store

\* the items a turn generates and its next-step directive, by what the model
\* answered (RunImpl.execute_tools_and_side_effects)
NewStepItems(t, kind) ==
    CASE kind = "message" -> <<RunItem(t, "message_output_item")>>
      [] kind = "tool_call" -> <<RunItem(t, "tool_call_item"), RunItem(t, "tool_call_output_item")>>
      [] OTHER -> <<RunItem(t, "handoff_call_item"), RunItem(t, "handoff_output_item")>>

NextStep(kind) ==
    CASE kind = "message" -> "final_output"
      [] kind = "tool_call" -> "run_again"
      [] OTHER -> "handoff"

\* a step result that carries the latest turn's items only
GeneratedItemsLatestOnly(pre_step_items, new_step_items) == new_step_items

\* `streamed_result.new_items = turn_result.generated_items`, the step result
\* being built with pre_step_items = streamed_result.new_items
GeneratedItems(pre_step_items, new_step_items) == pre_step_items \o new_step_items

\* a final-output branch that leaves final_output unset
FinalOutputLost(tr) == None

\* `streamed_result.final_output = turn_result.next_step.output`
FinalOutputOf(tr) == tr.output

\* step items that jump the queue
StreamStepItemsFirst(q, items) ==
    [n \in 1..Len(items) |-> RunItemStreamEvent(items[n])] \o q

\* RunImpl.stream_step_items_to_queue
StreamStepItemsToQueue(q, items) ==
    q \o [n \in 1..Len(items) |-> RunItemStreamEvent(items[n])]

\* `handoff_items = [item for item in new_items if isinstance(item, HandoffCallItem)]`
HandoffCallItems(items) == SelectSeq(items, LAMBDA i : i.kind = "handoff_call_item")

\* ------------------------------------------------------------ SandboxEnv
\* Python's None for the fields of SandboxEnv
NoValue == "None"

\* the value of a key a response body does not have
Absent == "absent"

\* dict.get(key, default) on a response body
Get(value, default) == IF value = Absent THEN default ELSE value

\* no response received: the call has sent no request
NoResponse == [kind |-> "none", executed |-> "-", final_state |-> Absent, delta |-> Absent,
               result |-> "-"]

\* the responses of POST /sessions/{id}/step: the request fails (HTTPError,
\* raise_for_status included), the body is not JSON, or it is a JSON object
\* with or without an executed list whose first action has an error or a
\* result, with or without final_state and delta
StepResponses ==
    {[kind |-> "http_error", executed |-> "-", final_state |-> Absent, delta |-> Absent,
      result |-> "-"],
     [kind |-> "text", executed |-> "-", final_state |-> Absent, delta |-> Absent,
      result |-> "-"]}
    \cup [kind : {"json"}, executed : {"empty", "error", "result"},
          final_state : {Absent, "S1", "S2"}, delta : {Absent, "D1"},
          result : {"str", "null"}]

\* SandboxEnv._format_result: a string as it is, None as the empty string
FormatResult(result) == IF result = "str" THEN <<"ok">> ELSE <<"">>

\* f"Error: {...}"
ErrorString(what) == <<"Error:", what>>

\* SandboxEnv.__init__: no session, no client, empty caches
SandboxConstructed ==
    /\ session_id = NoValue
    /\ http_client = FALSE
    /\ last_state = NoValue
    /\ last_delta = NoValue
    /\ last_raw_response = NoValue
    /\ sb_pc = "idle"
    /\ sb_ops = 0
    /\ sb_requests = 0
    /\ sb_returned = <<>>
    /\ sb_response = NoResponse
    /\ sb_before = [session_id |-> NoValue, last_state |-> NoValue, last_delta |-> NoValue,
                    requests |-> 0]

\* ------------------------------------------------------- python executor
Executions == 1..NumExecutions

\* the working directory of the process before any execution
ProcessDir == "cwd0"

\* the workdir argument of execution t: each its own
Workdir(t) == <<"w1", "w2", "w3">>[t]

\* no execution submitted yet
ExecutorIdle ==
    /\ cwd = ProcessDir
    /\ py_pc = [t \in Executions |-> "idle"]
    /\ original_dir = [t \in Executions |-> "-"]
    /\ ran_in = [t \in Executions |-> "-"]
    /\ files_before_in = [t \in Executions |-> "-"]
    /\ files_after_in = [t \in Executions |-> "-"]
    /\ timed_out = [t \in Executions |-> FALSE]

\* ------------------------------------------------------------------- Init
\* the state run_streamed returns in: the handle is built, the task is
\* created and has not run yet
Init ==
    /\ max_turns \in 1..MaxTurnsBound
    /\ on_max_turns \in {"error", "reply"}
    /\ \E hasSession \in BOOLEAN, inp \in {StrInput, ListInput(<<UserMessage("user"), UserMessage("user2")>>)},
          cb \in {"none", "sync", "async", "invalid"} :
          /\ (~hasSession => (inp = StrInput /\ cb = "none"))
          /\ session = hasSession
          /\ starting_input = inp
          /\ session_input_callback = cb
          /\ sr_input = inp
    /\ \E ambient \in BOOLEAN :
          /\ ambient_trace = (IF ambient THEN "active" ELSE "none")
          /\ trace = NewTrace(ambient)
    /\ model_reports_usage \in BOOLEAN
    /\ usage = NoUsage
    /\ call_log = <<>>
    /\ model_input = <<>>
    /\ raise_pc = "none"
    /\ SandboxConstructed
    /\ ExecutorIdle
    /\ pc = "start"
    /\ current_agent = "A"
    /\ current_turn = 0
    /\ should_run_agent_start_hooks = TRUE
    /\ current_span = 0
    /\ final_response = "none"
    /\ deltas = 0
    /\ turn_result = NoTurnResult
    /\ new_items = <<>>
    /\ sr_current_agent = "A"
    /\ raw_responses = <<>>
    /\ final_output = None
    /\ is_complete = FALSE
    /\ cancel_mode = "none"
    /\ event_queue = <<>>
    /\ spans = <<>>
    /\ session_items = InitialHistory
    /\ task_exception = "none"
    /\ exit_path = {}
    /\ model_calls = 0
    /\ final_output_sets = 0
    /\ handoff_turns = 0
    /\ handoffs = 0
    /\ cancel_pc = "none"
    /\ cancel_calls = 0
    /\ cancel_turn = 0

\* ---------------------------------------------------------------- leaving
\* the loop is left: `streamed_result.is_complete = True` (line 286 or the
\* except block), then the finally block; q and sp are the queue and the spans
\* as the exiting path leaves them, cs the span still open (0: none).  A
\* CancelledError is no Exception: it reaches the finally block with
\* is_complete as the loop left it
Terminate(q, sp, cs, paths, exc) ==
    /\ pc' = "done"
    /\ is_complete' = TRUE
    /\ event_queue' = FinallyQueue(exc # "CancelledError" \/ is_complete, q)
    /\ spans' = FinishSpan(sp, cs)
    /\ current_span' = cs
    /\ trace' = FinishTrace(trace)
    /\ exit_path' = paths
    /\ task_exception' = exc
    /\ raise_pc' = IF exc = "none" THEN "none" ELSE pc

\* `except Exception:` is_complete, sentinel, re-raise
Raise(exc) ==
    /\ Terminate(ExceptSentinel(event_queue), spans, current_span, {"exception"}, exc)
    /\ UNCHANGED <<envVars, cfgVars, logVars, localVars, handleVars, cancelVars, histVars, session_items>>

\* a top of the loop without the cancel checkpoint
LoopTopUnchecked(q, sp, cs, done, paths) ==
    IF CompleteBreaks(done)
    THEN Terminate(q, sp, cs, paths, "none")
    ELSE /\ pc' = "get_tools"
         /\ is_complete' = done
         /\ event_queue' = q
         /\ spans' = sp
         /\ current_span' = cs
         /\ exit_path' = paths
         /\ UNCHANGED <<trace, task_exception, raise_pc>>

\* the top of `while True` (lines 192-201), reached without suspension from
\* the statement before it: the cancel checkpoint, the is_complete check,
\* then the call of _get_all_tools; done and paths are is_complete and the
\* exits already taken when the top is reached
LoopTop(q, sp, cs, done, paths) ==
    IF CancelRequested
    THEN Terminate(Append(q, QueueCompleteSentinel), sp, cs, paths \cup {"cancel"}, "none")
    ELSE IF CompleteBreaks(done)
    THEN Terminate(q, sp, cs, paths, "none")
    ELSE /\ pc' = "get_tools"
         /\ is_complete' = done
         /\ event_queue' = q
         /\ spans' = sp
         /\ current_span' = cs
         /\ exit_path' = paths
         /\ UNCHANGED <<trace, task_exception, raise_pc>>

\* lines 218-245: count the turn, stop at the limit, else enter the turn
BeginTurn(sp, cs) ==
    /\ current_turn' = NextTurn(current_turn)
    /\ IF MaxTurnsExceeded(NextTurn(current_turn))
       THEN /\ Terminate(Append(event_queue, QueueCompleteSentinel),
                         AttachError(sp, cs), cs, {"max_turns"}, "none")
            /\ UNCHANGED <<sr_current_agent, call_log>>
       ELSE /\ call_log' = IF should_run_agent_start_hooks
                           THEN Append(call_log, Call("on_agent_start", NextTurn(current_turn),
                                                      current_agent))
                           ELSE call_log
            /\ pc' = IF should_run_agent_start_hooks THEN "agent_start_hooks" ELSE "llm_start"
            /\ sr_current_agent' = IF should_run_agent_start_hooks THEN sr_current_agent
                                   ELSE current_agent
            /\ spans' = sp
            /\ current_span' = cs
            /\ UNCHANGED <<is_complete, event_queue, trace, exit_path, task_exception, raise_pc>>
    /\ UNCHANGED <<envVars, cfgVars, usage, model_input, current_agent, should_run_agent_start_hooks, final_response,
                   deltas, turn_result, sr_input, new_items, raw_responses, final_output,
                   cancelVars, histVars, session_items>>

\* ---------------------------------------------------------------- actions
\* the task starts: lines 168-178
StartLoop ==
    /\ pc = "start"
    /\ pc' = "prepare"
    /\ trace' = StartTrace(trace)
    /\ event_queue' = Append(event_queue, AgentUpdatedStreamEvent(current_agent))
    /\ UNCHANGED <<envVars, cfgVars, logVars, localVars, handleVars, cancelVars, histVars, session_items,
                   is_complete, spans, current_span, exit_path, task_exception, raise_pc>>

\* lines 182-185: _prepare_input_with_session returns
PrepareInput ==
    /\ pc = "prepare"
    /\ ~ListInputNeedsCallback(starting_input, session, session_input_callback)
    /\ ~InvalidCallback(session, session_input_callback)
    /\ sr_input' = PrepareInputWithSession(starting_input, session,
                                           session_input_callback, session_items)
    /\ pc' = "save_input"
    /\ UNCHANGED <<envVars, cfgVars, logVars, localVars, new_items, sr_current_agent, raw_responses,
                   final_output, cancelVars, histVars, session_items,
                   is_complete, event_queue, spans, current_span, trace, exit_path,
                   task_exception, raise_pc>>

\* lines 549-556 and 571-575: list input, a session and no callback; or a
\* callback that cannot be called
PrepareInputUserError ==
    /\ pc = "prepare"
    /\ \/ ListInputNeedsCallback(starting_input, session, session_input_callback)
       \/ InvalidCallback(session, session_input_callback)
    /\ Raise("UserError")

\* line 188 returns, then the first pass of the top of the loop
SaveInput ==
    /\ pc = "save_input"
    /\ session_items' = SaveResultToSession(session_items, session, starting_input, <<>>)
    /\ LoopTop(event_queue, spans, current_span, FALSE, {})
    /\ UNCHANGED <<envVars, cfgVars, logVars, localVars, handleVars, cancelVars, histVars>>

\* line 201 returns; with a span open the turn begins at once
GetAllTools ==
    /\ pc = "get_tools"
    /\ IF NeedsSpan(current_span)
       THEN /\ pc' = "get_handoffs"
            /\ UNCHANGED <<envVars, cfgVars, logVars, localVars, handleVars, cancelVars, histVars, session_items,
                           is_complete, event_queue, spans, current_span, trace, exit_path,
                           task_exception, raise_pc>>
       ELSE BeginTurn(spans, current_span)

\* lines 205-216: the span of the current agent's tenure is opened
OpenSpan ==
    /\ pc = "get_handoffs"
    /\ BeginTurn(Append(spans, AgentSpan(current_agent)), Len(spans) + 1)

\* lines 317-325: the agent-start hooks return
AgentStartHooks ==
    /\ pc = "agent_start_hooks"
    /\ pc' = "llm_start"
    /\ sr_current_agent' = current_agent
    /\ UNCHANGED <<envVars, cfgVars, logVars, localVars, sr_input, new_items, raw_responses, final_output,
                   cancelVars, histVars, session_items,
                   is_complete, event_queue, spans, current_span, trace, exit_path,
                   task_exception, raise_pc>>

\* lines 328-361: prompts, handoffs, input, filter and the llm-start hooks
\* return and the model is called
LLMStart ==
    /\ pc = "llm_start"
    /\ pc' = "stream"
    /\ final_response' = "none"
    /\ model_calls' = model_calls + 1
    /\ call_log' = call_log \o <<Call("on_llm_start", current_turn, current_agent),
                                 Call("model", current_turn, current_agent)>>
    /\ model_input' = ModelInput(sr_input, new_items)
    /\ UNCHANGED <<envVars, cfgVars, usage, current_agent, current_turn, should_run_agent_start_hooks,
                   deltas, turn_result, handleVars, cancelVars, final_output_sets, handoff_turns,
                   handoffs, session_items, is_complete, event_queue, spans, current_span, trace,
                   exit_path, task_exception, raise_pc>>

\* lines 361-372: a raw delta arrives; deltas counts the deltas of the run
StreamDelta ==
    /\ pc = "stream"
    /\ final_response = "none"
    /\ deltas < MaxDeltas
    /\ deltas' = deltas + 1
    /\ event_queue' = Append(event_queue, RawResponsesStreamEvent(current_turn, "delta"))
    /\ UNCHANGED <<envVars, cfgVars, logVars, current_agent, current_turn, should_run_agent_start_hooks,
                   final_response, turn_result, handleVars, cancelVars, histVars,
                   session_items, pc, is_complete, spans, current_span, trace,
                   exit_path, task_exception, raise_pc>>

\* lines 372-392: the response-completed event arrives
StreamCompleted ==
    /\ pc = "stream"
    /\ final_response = "none"
    /\ \E kind \in {"message", "tool_call", "handoff"} : final_response' = kind
    /\ usage' = UsageAdd(usage, ResponseUsage(model_reports_usage))
    /\ event_queue' = Append(event_queue, RawResponsesStreamEvent(current_turn, "completed"))
    /\ UNCHANGED <<envVars, cfgVars, call_log, model_input, current_agent, current_turn, should_run_agent_start_hooks,
                   deltas, turn_result, handleVars, cancelVars, histVars,
                   session_items, pc, is_complete, spans, current_span, trace,
                   exit_path, task_exception, raise_pc>>

\* the stream ends: lines 394-404
StreamEnds ==
    /\ pc = "stream"
    /\ IF NoFinalResponse(final_response)
       THEN Raise("ModelBehaviorError")
       ELSE /\ pc' = "llm_end_hooks"
            /\ call_log' = Append(call_log, Call("on_llm_end", current_turn, current_agent))
            /\ UNCHANGED <<envVars, cfgVars, usage, model_input, localVars, handleVars, cancelVars, histVars, session_items,
                           is_complete, event_queue, spans, current_span, trace, exit_path,
                           task_exception, raise_pc>>

\* lines 396-458: the llm-end hooks return, the response is classified and
\* its handoff-call items are streamed at once
LLMEndHooks ==
    /\ pc = "llm_end_hooks"
    /\ pc' = "execute_tools"
    /\ event_queue' = StreamStepItemsToQueue(event_queue,
                          HandoffCallItems(NewStepItems(current_turn, final_response)))
    /\ call_log' = Append(call_log, Call("tools", current_turn, current_agent))
    /\ UNCHANGED <<envVars, cfgVars, usage, model_input, localVars, handleVars, cancelVars, histVars, session_items,
                   is_complete, spans, current_span, trace, exit_path, task_exception, raise_pc>>

\* lines 458, 423, 246-256: tools and side effects return the step result,
\* its items are streamed and the handle is updated
ExecuteTools ==
    /\ pc = "execute_tools"
    /\ LET items == NewStepItems(current_turn, final_response)
           step == NextStep(final_response)
       IN /\ turn_result' = [next_step |-> step,
                             new_agent |-> IF step = "handoff" THEN OtherAgent(current_agent)
                                           ELSE "-",
                             output |-> IF step = "final_output" THEN current_turn ELSE None,
                             new_step_items |-> items]
          /\ event_queue' = StreamStepItemsToQueue(event_queue, items)
          /\ new_items' = GeneratedItems(new_items, items)
          /\ handoff_turns' = handoff_turns + (IF step = "handoff" THEN 1 ELSE 0)
    /\ should_run_agent_start_hooks' = HooksFlagAfterTurn(should_run_agent_start_hooks)
    /\ raw_responses' = Append(raw_responses, [turn |-> current_turn, kind |-> final_response])
    /\ pc' = "save_turn"
    /\ UNCHANGED <<envVars, cfgVars, logVars, current_agent, current_turn, final_response, deltas,
                   sr_input, sr_current_agent, final_output, cancelVars,
                   model_calls, final_output_sets, handoffs, session_items,
                   is_complete, spans, current_span, trace, exit_path, task_exception, raise_pc>>

\* lines 254-267: the turn's items are saved, the handoff is carried out
SaveTurnHandoff ==
    /\ pc = "save_turn"
    /\ turn_result.next_step = "handoff"
    /\ session_items' = SaveResultToSession(session_items, session, ListInput(<<>>),
                                            turn_result.new_step_items)
    /\ current_agent' = turn_result.new_agent
    /\ should_run_agent_start_hooks' = TRUE
    /\ handoffs' = handoffs + 1
    /\ LoopTop(HandoffEvent(event_queue, turn_result.new_agent),
               FinishSpan(spans, current_span), 0, FALSE, {})
    /\ UNCHANGED <<envVars, cfgVars, logVars, current_turn, final_response, deltas, turn_result,
                   handleVars, cancelVars, model_calls, final_output_sets, handoff_turns>>

\* lines 269-275, then the top of the loop (lines 192-198) and the exit
SaveTurnFinalOutput ==
    /\ pc = "save_turn"
    /\ turn_result.next_step = "final_output"
    /\ session_items' = SaveResultToSession(session_items, session, ListInput(<<>>),
                                            turn_result.new_step_items)
    /\ final_output' = FinalOutputOf(turn_result)
    /\ final_output_sets' = final_output_sets + 1
    /\ LoopTop(Append(event_queue, QueueCompleteSentinel), spans, current_span,
               TRUE, {"final_output"})
    /\ UNCHANGED <<envVars, cfgVars, logVars, localVars, sr_input, new_items, sr_current_agent,
                   raw_responses, cancelVars, model_calls, handoff_turns, handoffs>>

\* lines 277-284
SaveTurnRunAgain ==
    /\ pc = "save_turn"
    /\ turn_result.next_step = "run_again"
    /\ session_items' = SaveResultToSession(session_items, session, ListInput(<<>>),
                                            turn_result.new_step_items)
    /\ LoopTop(event_queue, spans, current_span, FALSE, {})
    /\ UNCHANGED <<envVars, cfgVars, logVars, localVars, handleVars, cancelVars, histVars>>

\* an except block that records the response of the turn that raised
CollaboratorRaisesTurnKept ==
    /\ pc \in {"prepare", "save_input", "get_tools", "get_handoffs", "agent_start_hooks",
               "llm_start", "stream", "llm_end_hooks", "execute_tools", "save_turn"}
    /\ (pc \in {"prepare", "save_input", "save_turn"} => session)
    /\ Terminate(ExceptSentinel(event_queue), spans, current_span, {"exception"}, "Exception")
    /\ raw_responses' = IF pc = "execute_tools"
                        THEN Append(raw_responses, [turn |-> current_turn, kind |-> final_response])
                        ELSE raw_responses
    /\ UNCHANGED <<envVars, cfgVars, logVars, localVars, sr_input, new_items, sr_current_agent,
                   final_output, cancelVars, histVars, session_items>>

\* a collaborator awaited by the loop raises instead of returning: the
\* session, the tool and handoff resolvers, a hook, the model or the tools
CollaboratorRaises ==
    /\ pc \in {"prepare", "save_input", "get_tools", "get_handoffs", "agent_start_hooks",
               "llm_start", "stream", "llm_end_hooks", "execute_tools", "save_turn"}
    /\ (pc \in {"prepare", "save_input", "save_turn"} => session)
    /\ Raise("Exception")

\* the background task is cancelled while it is suspended in an await: the
\* CancelledError passes the except block and the finally block runs
TaskCancelled ==
    /\ pc \in {"prepare", "save_input", "get_tools", "get_handoffs", "agent_start_hooks",
               "llm_start", "stream", "llm_end_hooks", "execute_tools", "save_turn"}
    /\ (pc \in {"prepare", "save_input", "save_turn"} => session)
    /\ Terminate(event_queue, spans, current_span, {"task_cancelled"}, "CancelledError")
    /\ UNCHANGED <<envVars, cfgVars, logVars, localVars, handleVars, cancelVars, histVars, session_items>>

\* the caller sets the cancel-after-turn flag on the result handle
Cancel ==
    /\ cancel_mode = "none"
    /\ cancel_mode' = "after_turn"
    /\ cancel_pc' = pc
    /\ cancel_calls' = model_calls
    /\ cancel_turn' = current_turn
    /\ UNCHANGED <<envVars, cfgVars, logVars, localVars, handleVars, histVars, endVars, session_items>>

Next ==
    \/ StartLoop
    \/ PrepareInput
    \/ PrepareInputUserError
    \/ SaveInput
    \/ GetAllTools
    \/ OpenSpan
    \/ AgentStartHooks
    \/ LLMStart
    \/ StreamDelta
    \/ StreamCompleted
    \/ StreamEnds
    \/ LLMEndHooks
    \/ ExecuteTools
    \/ SaveTurnHandoff
    \/ SaveTurnFinalOutput
    \/ SaveTurnRunAgain
    \/ CollaboratorRaises
    \/ TaskCancelled
    \/ Cancel

Spec == Init /\ [][Next]_vars

\* ------------------------------------------------- runs whose awaits return
\* the callers of Init whose model reports usage, under the default policy
InitReturns ==
    /\ Init
    /\ on_max_turns = "error"
    /\ model_reports_usage

\* a step of the background task whose awaited collaborator returned
TaskStep ==
    \/ StartLoop
    \/ PrepareInput
    \/ PrepareInputUserError
    \/ SaveInput
    \/ GetAllTools
    \/ OpenSpan
    \/ AgentStartHooks
    \/ LLMStart
    \/ StreamDelta
    \/ StreamCompleted
    \/ StreamEnds
    \/ LLMEndHooks
    \/ ExecuteTools
    \/ SaveTurnHandoff
    \/ SaveTurnFinalOutput
    \/ SaveTurnRunAgain

NextReturns ==
    \/ TaskStep
    \/ Cancel

\* every model stream, hook, tool execution and session call returns, and the
\* event loop resumes the task (created by asyncio.create_task) when it does
SpecReturns == InitReturns /\ [][NextReturns]_vars /\ WF_vars(TaskStep)

\* ------------------------------------------------- SandboxEnv operations
\* the runner is not started while the other components are exercised
RunnerNotStarted ==
    /\ max_turns = 1
    /\ on_max_turns = "error"
    /\ ~session
    /\ ambient_trace = "none"
    /\ model_reports_usage

InitSandbox == Init /\ RunnerNotStarted

\* `if not self.session_id`
NoSession(sid) == sid = NoValue

\* a call that counts every JSON body as a success
StepSucceededAlways(resp) == resp.kind = "json"

\* _call_step reaches its cache update: a JSON body whose first executed
\* action, if there is one, has no error
StepSucceeded(resp) == resp.kind = "json" /\ resp.executed # "error"

\* the value _call_step returns for a response
StepReturnValue(resp) ==
    CASE resp.kind = "http_error" -> ErrorString("request failed")
      [] resp.kind = "text" -> <<"text">>
      [] resp.executed = "error" -> ErrorString("action failed")
      [] OTHER -> FormatResult(resp.result)

\* build() is called: the client is created and POST /sessions is sent
Build ==
    /\ sb_pc = "idle"
    /\ sb_ops < MaxSandboxOps
    /\ sb_ops' = sb_ops + 1
    /\ http_client' = TRUE
    /\ sb_requests' = sb_requests + 1
    /\ sb_pc' = "build_post"
    /\ sb_returned' = <<>>
    /\ sb_response' = NoResponse
    /\ UNCHANGED <<session_id, last_state, last_delta, last_raw_response, sb_before,
                   runnerVars, pythonVars>>

\* POST /sessions returns: it failed or its body is not JSON (build raises),
\* its body has no session_id (None is stored, build raises), or the session
\* is created and GET state is sent
BuildPosted ==
    /\ sb_pc = "build_post"
    /\ \E outcome \in {"http_error", "not_json", "no_session_id", "created"} :
          /\ session_id' = CASE outcome = "created" -> "s1"
                              [] outcome = "no_session_id" -> NoValue
                              [] OTHER -> session_id
          /\ sb_pc' = IF outcome = "created" THEN "build_state" ELSE "idle"
          /\ sb_requests' = IF outcome = "created" THEN sb_requests + 1 ELSE sb_requests
    /\ UNCHANGED <<http_client, last_state, last_delta, last_raw_response, sb_ops,
                   sb_returned, sb_response, sb_before, runnerVars, pythonVars>>

\* GET /sessions/{id}/state returns: the initial state is cached, or the
\* HTTPError is logged
BuildStateFetched ==
    /\ sb_pc = "build_state"
    /\ \E ok \in BOOLEAN : last_state' = IF ok THEN "S0" ELSE last_state
    /\ sb_pc' = "idle"
    /\ UNCHANGED <<session_id, http_client, last_delta, last_raw_response, sb_ops,
                   sb_requests, sb_returned, sb_response, sb_before, runnerVars, pythonVars>>

\* the end of cleanup(): session, client and caches are reset
CleanupReset ==
    /\ session_id' = NoValue
    /\ http_client' = FALSE
    /\ last_state' = NoValue
    /\ last_delta' = NoValue
    /\ last_raw_response' = NoValue
    /\ sb_pc' = "idle"

\* cleanup() is called: DELETE is sent when there is a session and a client,
\* the client is closed when there is one
Cleanup ==
    /\ sb_pc = "idle"
    /\ sb_ops < MaxSandboxOps
    /\ sb_ops' = sb_ops + 1
    /\ sb_returned' = <<>>
    /\ sb_response' = NoResponse
    /\ IF ~NoSession(session_id) /\ http_client
       THEN /\ sb_requests' = sb_requests + 1
            /\ sb_pc' = "cleanup_delete"
            /\ UNCHANGED <<session_id, http_client, last_state, last_delta, last_raw_response>>
       ELSE IF http_client
       THEN /\ sb_pc' = "cleanup_close"
            /\ UNCHANGED <<sb_requests, session_id, http_client, last_state, last_delta,
                           last_raw_response>>
       ELSE /\ CleanupReset
            /\ UNCHANGED sb_requests
    /\ UNCHANGED <<sb_before, runnerVars, pythonVars>>

\* DELETE returns, with or without HTTPError; the client is closed next
CleanupDeleted ==
    /\ sb_pc = "cleanup_delete"
    /\ sb_pc' = "cleanup_close"
    /\ UNCHANGED <<session_id, http_client, last_state, last_delta, last_raw_response,
                   sb_ops, sb_requests, sb_returned, sb_response, sb_before,
                   runnerVars, pythonVars>>

\* aclose() returns
CleanupClosed ==
    /\ sb_pc = "cleanup_close"
    /\ CleanupReset
    /\ UNCHANGED <<sb_ops, sb_requests, sb_returned, sb_response, sb_before,
                   runnerVars, pythonVars>>

\* a tool is invoked: _call_step up to its POST .../step
CallStep ==
    /\ sb_pc = "idle"
    /\ sb_ops < MaxSandboxOps
    /\ sb_ops' = sb_ops + 1
    /\ sb_before' = [session_id |-> session_id, last_state |-> last_state,
                     last_delta |-> last_delta, requests |-> sb_requests]
    /\ sb_response' = NoResponse
    /\ IF NoSession(session_id)
       THEN /\ sb_returned' = ErrorString("session is not initialized")
            /\ UNCHANGED <<http_client, sb_requests, sb_pc>>
       ELSE /\ http_client' = TRUE
            /\ sb_requests' = sb_requests + 1
            /\ sb_pc' = "step"
            /\ sb_returned' = <<>>
    /\ UNCHANGED <<session_id, last_state, last_delta, last_raw_response,
                   runnerVars, pythonVars>>

\* POST .../step returns and _call_step runs to its return
StepReturns ==
    /\ sb_pc = "step"
    /\ \E resp \in StepResponses :
          /\ sb_response' = resp
          /\ sb_returned' = StepReturnValue(resp)
          /\ last_raw_response' = IF resp.kind = "http_error" THEN last_raw_response ELSE "text"
          /\ last_state' = IF StepSucceeded(resp) THEN Get(resp.final_state, last_state)
                            ELSE last_state
          /\ last_delta' = IF StepSucceeded(resp) THEN Get(resp.delta, NoValue)
                            ELSE last_delta
    /\ sb_pc' = "idle"
    /\ UNCHANGED <<session_id, http_client, sb_ops, sb_requests, sb_before,
                   runnerVars, pythonVars>>

NextSandbox ==
    \/ Build
    \/ BuildPosted
    \/ BuildStateFetched
    \/ Cleanup
    \/ CleanupDeleted
    \/ CleanupClosed
    \/ CallStep
    \/ StepReturns

SpecSandbox == InitSandbox /\ [][NextSandbox]_vars

\* ------------------------------------------- execute_python_code_sync
InitPython == Init /\ RunnerNotStarted

\* execute_python_code_async hands execution t to the default executor
Submit(t) ==
    /\ py_pc[t] = "idle"
    /\ py_pc' = [py_pc EXCEPT ![t] = "getcwd"]
    /\ UNCHANGED <<cwd, original_dir, ran_in, files_before_in, files_after_in, timed_out,
                   runnerVars, sandboxVars>>

\* `original_dir = os.getcwd()`
GetCwd(t) ==
    /\ py_pc[t] = "getcwd"
    /\ original_dir' = [original_dir EXCEPT ![t] = cwd]
    /\ py_pc' = [py_pc EXCEPT ![t] = "chdir"]
    /\ UNCHANGED <<cwd, ran_in, files_before_in, files_after_in, timed_out,
                   runnerVars, sandboxVars>>

\* `os.makedirs(workdir, exist_ok=True); os.chdir(workdir)`, or one of them
\* raises and the except block is taken
Chdir(t) ==
    /\ py_pc[t] = "chdir"
    /\ \E ok \in BOOLEAN :
          /\ cwd' = IF ok THEN Workdir(t) ELSE cwd
          /\ py_pc' = [py_pc EXCEPT ![t] = IF ok THEN "glob_before" ELSE "finally"]
    /\ UNCHANGED <<original_dir, ran_in, files_before_in, files_after_in, timed_out,
                   runnerVars, sandboxVars>>

\* `files_before = set(glob.glob("*"))`: the listing of the process's
\* working directory
GlobBefore(t) ==
    /\ py_pc[t] = "glob_before"
    /\ files_before_in' = [files_before_in EXCEPT ![t] = cwd]
    /\ py_pc' = [py_pc EXCEPT ![t] = "run_cell"]
    /\ UNCHANGED <<cwd, original_dir, ran_in, files_after_in, timed_out,
                   runnerVars, sandboxVars>>

\* `shell.run_cell(code_clean)` and the figure saving: the code runs in the
\* process's working directory; saving the figure may raise
RunCell(t) ==
    /\ py_pc[t] = "run_cell"
    /\ ran_in' = [ran_in EXCEPT ![t] = cwd]
    /\ \E ok \in BOOLEAN :
          py_pc' = [py_pc EXCEPT ![t] = IF ok THEN "glob_after" ELSE "finally"]
    /\ UNCHANGED <<cwd, original_dir, files_before_in, files_after_in, timed_out,
                   runnerVars, sandboxVars>>

\* `files_after = set(glob.glob("*"))` and the return of the result
GlobAfter(t) ==
    /\ py_pc[t] = "glob_after"
    /\ files_after_in' = [files_after_in EXCEPT ![t] = cwd]
    /\ py_pc' = [py_pc EXCEPT ![t] = "finally"]
    /\ UNCHANGED <<cwd, original_dir, ran_in, files_before_in, timed_out,
                   runnerVars, sandboxVars>>

\* `finally: os.chdir(original_dir)`
RestoreDir(t) ==
    /\ py_pc[t] = "finally"
    /\ cwd' = original_dir[t]
    /\ py_pc' = [py_pc EXCEPT ![t] = "finished"]
    /\ UNCHANGED <<original_dir, ran_in, files_before_in, files_after_in, timed_out,
                   runnerVars, sandboxVars>>

\* asyncio.wait_for gives up on execution t: the caller gets the timeout
\* result, the thread runs on
Timeout(t) ==
    /\ py_pc[t] \notin {"idle", "finished"}
    /\ ~timed_out[t]
    /\ timed_out' = [timed_out EXCEPT ![t] = TRUE]
    /\ UNCHANGED <<cwd, py_pc, original_dir, ran_in, files_before_in, files_after_in,
                   runnerVars, sandboxVars>>

NextPython ==
    \/ \E t \in Executions : Submit(t)
    \/ \E t \in Executions : GetCwd(t)
    \/ \E t \in Executions : Chdir(t)
    \/ \E t \in Executions : GlobBefore(t)
    \/ \E t \in Executions : RunCell(t)
    \/ \E t \in Executions : GlobAfter(t)
    \/ \E t \in Executions : RestoreDir(t)
    \/ \E t \in Executions : Timeout(t)

\* the threads of the default executor interleave at every call into os
SpecPython == InitPython /\ [][NextPython]_vars

\* ----------------------------------------------------------------- claims
SentinelCount == Count(event_queue, "sentinel")
AgentUpdatedCount == Count(event_queue, "agent_updated")
LastEvent == event_queue[Len(event_queue)]
NonSentinel(q) == SelectSeq(q, LAMBDA e : e.type # "sentinel")
InQueue(e) == \E n \in 1..Len(event_queue) : event_queue[n] = e
InSeq(x, sq) == \E n \in 1..Len(sq) : sq[n] = x
\* the positions of the task inside _run_single_turn_streamed and the save
\* of its result: a turn is in progress
TurnPcs == {"agent_start_hooks", "llm_start", "stream", "llm_end_hooks",
            "execute_tools", "save_turn"}
SpansFinished == Cardinality({n \in 1..Len(spans) : spans[n].finished >= 1})
AllToolCalls == \A n \in 1..Len(raw_responses) : raw_responses[n].kind = "tool_call"

C2_MaxTurns ==
    /\ model_calls <= max_turns
    /\ (pc = "done" /\ "max_turns" \in exit_path) =>
          /\ model_calls = max_turns
          /\ Len(raw_responses) = max_turns
          /\ current_turn = max_turns + 1
          /\ current_span # 0
          /\ spans[current_span].error
          /\ SentinelCount = 1
          /\ LastEvent = QueueCompleteSentinel
          /\ is_complete
          /\ final_output = None
          /\ task_exception = "none"
    /\ (pc = "done" /\ task_exception = "none" /\ "cancel" \notin exit_path
           /\ final_output = None) =>
          /\ "max_turns" \in exit_path
          /\ \E n \in 1..Len(spans) : spans[n].error
    /\ (pc = "done" /\ max_turns = 2 /\ AllToolCalls /\ task_exception = "none"
           /\ "cancel" \notin exit_path) =>
          model_calls = 2

C2_Witness ==
    /\ pc = "done" /\ exit_path = {"max_turns"} /\ max_turns = 2
    /\ AllToolCalls /\ model_calls = 2

\* C3: under on_max_turns = "reply" a run that reaches the turn limit makes
\* one more model call, ends with a final output and records no max-turns
\* error.
C3_ReplyPolicy ==
    (pc = "done" /\ on_max_turns = "reply" /\ current_turn > max_turns) =>
        /\ model_calls = max_turns + 1
        /\ final_output # None
        /\ \A n \in 1..Len(spans) : ~spans[n].error

\* C4: whatever way the loop is left, exactly one terminal sentinel has been
\* enqueued over the run.
C4_ExactlyOneSentinel ==
    pc = "done" => SentinelCount = 1

\* C5: once is_complete is true it stays true and only sentinels are added
\* to the event queue; final_output is assigned at most once, and only in a
\* step that turns is_complete from false to true.
C5_CompleteIsFinal ==
    /\ [](final_output_sets <= 1)
    /\ []((final_output # None) => is_complete)
    /\ [][/\ is_complete => (is_complete' /\ NonSentinel(event_queue') = NonSentinel(event_queue))
          /\ (final_output' # final_output \/ final_output_sets' # final_output_sets) =>
                (~is_complete /\ is_complete' /\ final_output = None)]_vars

C5_Witness ==
    pc = "done" /\ final_output # None /\ SentinelCount = 2

\* C6: when the loop completes for a cancellation that was requested while
\* turn t was in progress, turn t ran to its end first: its completed
\* response was received, its step items were streamed, its result is on
\* the handle and its items are in the session.
C6_TurnNotTruncated ==
    ("cancel" \in exit_path /\ cancel_pc \in TurnPcs) =>
        /\ is_complete
        /\ Len(raw_responses) >= cancel_turn
        /\ model_calls = Len(raw_responses)
        /\ raw_responses[cancel_turn].turn = cancel_turn
        /\ InQueue(RawResponsesStreamEvent(cancel_turn, "completed"))
        /\ LET items == NewStepItems(cancel_turn, raw_responses[cancel_turn].kind)
           IN \A n \in 1..Len(items) :
                 /\ InQueue(RunItemStreamEvent(items[n]))
                 /\ InSeq(items[n], new_items)
                 /\ session => InSeq(ToInputItem(items[n]), session_items)

C6_Witness ==
    /\ "cancel" \in exit_path /\ cancel_pc = "stream" /\ session
    /\ cancel_turn = 2 /\ turn_result.next_step = "run_again"

\* C7 as stated: once the flag is set no new turn is started, so only a turn
\* in flight at the request issues a model call after it.
C7_NoNewTurnOnceSet ==
    cancel_mode = "after_turn" =>
        IF cancel_pc \in TurnPcs THEN model_calls <= cancel_calls + 1
        ELSE model_calls = cancel_calls

\* C7 amended: after the request at most one more model call is issued and
\* at most one more turn is counted; none when the model call of the turn in
\* flight was already issued; a request made before the first top-of-loop
\* check leaves the run complete with zero model calls.
C7_CancelAtCheckpoints ==
    cancel_mode = "after_turn" =>
        /\ model_calls <= cancel_calls + 1
        /\ current_turn <= cancel_turn + 1
        /\ cancel_pc \in {"stream", "llm_end_hooks", "execute_tools", "save_turn"} =>
              model_calls = cancel_calls
        /\ cancel_pc \in {"start", "prepare", "save_input"} =>
              /\ model_calls = 0
              /\ current_turn = 0
              /\ pc = "done" => (is_complete /\ (task_exception = "none" => exit_path = {"cancel"}))

C7_Witness ==
    /\ cancel_mode = "after_turn" /\ cancel_pc = "get_tools" /\ cancel_turn = 0
    /\ model_calls = 1 /\ pc = "done" /\ exit_path = {"cancel"}

\* C8 as stated: at the end of every run the agent-updated events number
\* 1 + the turns whose directive was a handoff.
C8_EventsPerHandoffDirective ==
    pc = "done" => AgentUpdatedCount = 1 + handoff_turns

\* C8 amended: the agent-updated events number 1 + the handoffs the loop
\* carried out; a handoff directive is not carried out only when the save of
\* that turn to the session raised.
C8_EventsPerHandoff ==
    /\ pc # "start" => AgentUpdatedCount = 1 + handoffs
    /\ handoffs <= handoff_turns
    /\ handoff_turns <= handoffs + 1
    /\ (pc = "done" /\ handoff_turns # handoffs) =>
          (session /\ task_exception \in {"Exception", "CancelledError"})
    /\ (pc = "done" /\ task_exception = "none") => AgentUpdatedCount = 1 + handoff_turns

C8_Witness ==
    pc = "done" /\ handoffs = 1 /\ handoff_turns = 2

\* C9: spans follow agent tenures: at most one span per tenure, the n-th
\* span belongs to the n-th agent to be current, a span is open while a turn
\* runs and belongs to the current agent, every handoff has finished one
\* span (the outgoing agent's), no span is finished twice, at the end every
\* span is finished; A hands off to B on turn 1 and B gives the final output:
\* exactly 2 spans opened and 2 finished.
C9_SpansFollowTenures ==
    /\ Len(spans) <= handoffs + 1
    /\ \A n \in 1..Len(spans) :
          /\ spans[n].finished <= 1
          /\ spans[n].agent = (IF n % 2 = 1 THEN "A" ELSE "B")
          /\ n < Len(spans) => spans[n].finished = 1
    /\ pc # "done" => SpansFinished = handoffs
    /\ pc \in TurnPcs =>
          /\ Len(spans) = handoffs + 1
          /\ current_span = Len(spans)
          /\ spans[current_span].agent = current_agent
          /\ spans[current_span].finished = 0
    /\ pc = "done" => SpansFinished = Len(spans)
    /\ (pc = "done" /\ "final_output" \in exit_path /\ Len(raw_responses) = 2
           /\ raw_responses[1].kind = "handoff") =>
          (Len(spans) = 2 /\ SpansFinished = 2 /\ spans[1].agent = "A" /\ spans[2].agent = "B")

C9_Witness ==
    /\ pc = "done" /\ exit_path = {"final_output"} /\ Len(raw_responses) = 2
    /\ raw_responses[1].kind = "handoff" /\ Len(spans) = 2

\* C10: after A handed off to B on turn 1, whenever the agent-updated event
\* for B is in the event queue (and B has not handed off again) the handle's
\* current_agent is B.
C10_CurrentAgentFollowsEvent ==
    (handoffs = 1 /\ handoff_turns = 1 /\ raw_responses[1].kind = "handoff"
        /\ InQueue(AgentUpdatedStreamEvent("B"))) =>
        sr_current_agent = "B"

\* C11: when a step inside the loop raises (the model's behavioural error, a
\* usage error, an exception of a hook, the tools or the session), the run
\* ends complete with the terminal sentinel as the one sentinel and last
\* event, every span finished, the owned trace finished, the exception left
\* on the task, no final output and no other exit taken.
C11_ExceptionExit ==
    /\ (pc = "done" /\ task_exception \in {"Exception", "ModelBehaviorError", "UserError"}) =>
          /\ is_complete
          /\ SentinelCount = 1
          /\ LastEvent = QueueCompleteSentinel
          /\ \A n \in 1..Len(spans) : spans[n].finished = 1
          /\ trace \in {"none", "finished"}
          /\ (ambient_trace = "none" => trace = "finished")
          /\ final_output = None
          /\ exit_path = {"exception"}
    /\ (pc = "done" /\ "exception" \in exit_path) => task_exception # "none"
    /\ (pc # "done") => task_exception = "none"

C11_Witness ==
    /\ pc = "done" /\ task_exception = "Exception" /\ current_turn = 2
    /\ Len(call_log) > 0 /\ call_log[Len(call_log)].what = "tools"
    /\ Len(spans) = 2 /\ trace = "finished"

\* C12: at the end of the task, whatever exit was taken (final output, turn
\* limit, cancel-after-turn, exception, cancellation of the task), every
\* span the loop started has been finished exactly once; no span is ever
\* finished twice; the run's trace is finished exactly when the run created
\* it, which is exactly when no ambient trace was active; with an ambient
\* trace the run holds no trace at any time.
C12_NoTracingLeak ==
    /\ \A n \in 1..Len(spans) : spans[n].finished <= 1
    /\ (ambient_trace = "active") <=> (trace = "none")
    /\ pc = "done" =>
          /\ \A n \in 1..Len(spans) : spans[n].finished = 1
          /\ (ambient_trace = "none") <=> (trace = "finished")
    /\ (pc \notin {"start", "done"} /\ ambient_trace = "none") => trace = "started"

C12_Witness ==
    /\ pc = "done" /\ task_exception = "CancelledError" /\ Len(spans) = 2
    /\ spans[2].finished = 1 /\ trace = "finished"
\* C13: when a session is configured, the input is a list and no merge
\* callback is given, the usage error is raised before any event is on the
\* event queue and before any model call.
C13_UsageErrorBeforeEvents ==
    (ListInputNeedsCallback(starting_input, session, session_input_callback)
        /\ task_exception = "UserError") =>
        /\ AgentUpdatedCount = 0
        /\ NonSentinel(event_queue) = <<>>
        /\ model_calls = 0

IsPrefix(p, q) == Len(p) <= Len(q) /\ SubSeq(q, 1, Len(p)) = p
IsRunEvent(e) == e.type \in {"raw", "run_item"}

\* C14: the event queue only grows at its end, so what was taken from it is
\* always a prefix of what was produced; in it the run events are in turn
\* order, within a turn every raw model event precedes every step-item
\* event, and nothing but sentinels follows a sentinel.
C14_EventOrder ==
    /\ [](\A i, j \in 1..Len(event_queue) :
            i < j =>
               /\ (IsRunEvent(event_queue[i]) /\ IsRunEvent(event_queue[j])) =>
                     event_queue[i].turn <= event_queue[j].turn
               /\ (event_queue[i].type = "run_item" /\ event_queue[j].type = "raw") =>
                     event_queue[i].turn < event_queue[j].turn
               /\ event_queue[i].type = "sentinel" => event_queue[j].type = "sentinel")
    /\ [][IsPrefix(event_queue, event_queue')]_vars

C14_Witness ==
    /\ pc = "done" /\ exit_path = {"final_output"} /\ current_turn = 2
    /\ InQueue(RawResponsesStreamEvent(1, "delta"))
    /\ InQueue(RunItemStreamEvent(RunItem(1, "tool_call_output_item")))
    /\ InQueue(RunItemStreamEvent(RunItem(2, "message_output_item")))

\* the task is past _prepare_input_with_session
Prepared == pc \notin {"start", "prepare", "done"} \/ (pc = "done" /\ current_turn >= 1)

\* C15: the prepared input: without a session the input itself; with a
\* session, a string input and no callback the two history items in their
\* order and then the one new user message; with a callback the list the
\* callback returns for (history, new input list), for a synchronous and for
\* an asynchronous callback alike.
C15_InputPreparation ==
    Prepared =>
        /\ ~session => sr_input = starting_input
        /\ (session /\ session_input_callback = "none") =>
              /\ starting_input = StrInput
              /\ sr_input = ListInput(<<UserMessage("history"), UserMessage("history2"),
                                        UserMessage("user")>>)
        /\ (session /\ session_input_callback # "none") =>
              /\ session_input_callback \in {"sync", "async"}
              /\ sr_input.kind = "list"
              /\ sr_input.items = SessionInputCallback(InitialHistory,
                                                       InputToNewInputList(starting_input))
              /\ starting_input = StrInput =>
                    sr_input.items = <<UserMessage("history2"), UserMessage("user")>>
              /\ starting_input # StrInput =>
                    sr_input.items = <<UserMessage("history2"), UserMessage("user"),
                                       UserMessage("user2")>>

C15_Witness ==
    /\ pc = "save_input" /\ session /\ session_input_callback = "async"
    /\ starting_input.kind = "list" /\ Len(sr_input.items) = 3

\* the input-item forms of the items generated in turns 1..n
RECURSIVE TurnItemsUpTo(_)
TurnItemsUpTo(n) ==
    IF n = 0 THEN <<>>
    ELSE TurnItemsUpTo(n - 1) \o ToInputItems(NewStepItems(n, raw_responses[n].kind))

\* what the session holds when the turns 1..n are persisted
SessionAfterTurns(n) ==
    InitialHistory \o InputToNewInputList(starting_input) \o TurnItemsUpTo(n)

HandoffsUpTo(k) == Cardinality({n \in 1..k : raw_responses[n].kind = "handoff"})

\* C16: with a session, while the task has not raised the session holds the
\* prior history, then the original input once, then the step items of every
\* turn already saved, in turn order and once each; so it does at the end of
\* a run that ends by final output.  The items of a turn are in the session
\* when its final output is set and when its handoff is announced.
C16_SessionItemsInOrder ==
    session =>
        /\ (pc \in {"start", "prepare", "save_input"}) => session_items = InitialHistory
        /\ (pc \notin {"start", "prepare", "save_input"} /\ task_exception = "none") =>
              session_items = SessionAfterTurns(IF pc = "save_turn"
                                                THEN Len(raw_responses) - 1
                                                ELSE Len(raw_responses))
        /\ (pc = "done" /\ "final_output" \in exit_path) =>
              session_items = SessionAfterTurns(current_turn)
        /\ final_output # None => session_items = SessionAfterTurns(Len(raw_responses))
        /\ \A k \in 1..Len(raw_responses) :
              (raw_responses[k].kind = "handoff" /\ HandoffsUpTo(k) <= handoffs) =>
                  IsPrefix(SessionAfterTurns(k), session_items)

C16_Witness ==
    /\ pc = "done" /\ session /\ exit_path = {"final_output"} /\ current_turn = 2
    /\ raw_responses[1].kind = "handoff" /\ Len(session_items) = 6
\* C17 as stated: after a turn new_items holds the latest turn's items only.
C17_NewItemsLatestTurnOnly ==
    Len(raw_responses) >= 1 =>
        new_items = NewStepItems(Len(raw_responses), raw_responses[Len(raw_responses)].kind)

\* the items generated in turns 1..n, in generation order
RECURSIVE ItemsUpTo(_)
ItemsUpTo(n) ==
    IF n = 0 THEN <<>>
    ELSE ItemsUpTo(n - 1) \o NewStepItems(n, raw_responses[n].kind)

\* C17 amended: new_items accumulates over the run: after each turn it is
\* the items of all completed turns in generation order, and it only grows
\* at its end; raw_responses is append-only, its k-th entry is turn k's
\* response, and it gains exactly one entry when a turn completes and at no
\* other step.
C17_NewItemsAccumulate ==
    /\ [](/\ new_items = ItemsUpTo(Len(raw_responses))
          /\ \A k \in 1..Len(raw_responses) : raw_responses[k].turn = k
          /\ Len(raw_responses) <= model_calls
          /\ model_calls <= Len(raw_responses) + 1
          /\ (pc = "save_turn" => Len(raw_responses) = current_turn))
    /\ [][/\ IsPrefix(raw_responses, raw_responses')
          /\ IsPrefix(new_items, new_items')
          /\ Len(raw_responses') <= Len(raw_responses) + 1
          /\ (raw_responses' # raw_responses) <=> (pc = "execute_tools" /\ pc' = "save_turn")
         ]_vars

C17_Witness ==
    /\ Len(raw_responses) = 2 /\ Len(new_items) = 4
    /\ new_items[1].turn = 1 /\ new_items[4].turn = 2

ModelCallsLogged == Len(SelectSeq(call_log, LAMBDA c : c.what = "model"))

\* C18: a run that ends by final output on turn n made exactly n model
\* calls, has n raw responses, and its current_turn is n, the turn whose
\* output is the final output; when the first answer is a plain message the
\* run executes exactly one turn and ends with current_turn = 1.
C18_TurnsCounted ==
    /\ model_calls <= current_turn
    /\ (pc = "done" /\ "final_output" \in exit_path) =>
          /\ model_calls = current_turn
          /\ ModelCallsLogged = current_turn
          /\ Len(raw_responses) = current_turn
          /\ raw_responses[current_turn].kind = "message"
          /\ final_output = current_turn
          /\ \A k \in 1..(current_turn - 1) : raw_responses[k].kind # "message"
    /\ (pc = "done" /\ task_exception = "none" /\ Len(raw_responses) >= 1
           /\ raw_responses[1].kind = "message") =>
          (current_turn = 1 /\ model_calls = 1 /\ "final_output" \in exit_path)

C18_Witness ==
    /\ pc = "done" /\ exit_path = {"final_output"} /\ ~session /\ starting_input = StrInput
    /\ current_turn = 1 /\ raw_responses[1].kind = "message"

AgentStartCalls == SelectSeq(call_log, LAMBDA c : c.what = "on_agent_start")
FirstCallOfTurn(t) ==
    CHOOSE n \in 1..Len(call_log) :
        call_log[n].turn = t /\ \A m \in 1..(n - 1) : call_log[m].turn # t

\* C19: the on-agent-start hooks are called once per agent tenure: an
\* on-agent-start call belongs to turn 1 or to the turn after a handoff, is
\* the first call of its turn and the only such call of its turn, and is for
\* the agent that turn runs; every turn 1 and every turn after a handoff
\* that reached its model call has made that call before it; no other turn
\* makes it.
C19_AgentStartOncePerTenure ==
    /\ Len(AgentStartCalls) <= handoffs + 1
    /\ \A n \in 1..Len(call_log) :
          LET c == call_log[n] IN
          /\ c.what = "on_agent_start" =>
                /\ (c.turn = 1 \/ raw_responses[c.turn - 1].kind = "handoff")
                /\ \A m \in 1..Len(call_log) : (m # n /\ call_log[m].turn = c.turn) =>
                       (m > n /\ call_log[m].what # "on_agent_start")
                /\ c.agent = (IF HandoffsUpTo(c.turn - 1) % 2 = 0 THEN "A" ELSE "B")
          /\ (c.what = "model" /\ (c.turn = 1 \/ raw_responses[c.turn - 1].kind = "handoff")) =>
                call_log[FirstCallOfTurn(c.turn)].what = "on_agent_start"
          /\ (c.what = "model" /\ c.turn > 1 /\ raw_responses[c.turn - 1].kind # "handoff") =>
                call_log[FirstCallOfTurn(c.turn)].what = "on_llm_start"
    /\ pc \in {"stream", "llm_end_hooks", "execute_tools"} =>
          Len(AgentStartCalls) = handoffs + 1

C19_Witness ==
    /\ pc = "done" /\ exit_path = {"max_turns"} /\ max_turns = 2
    /\ raw_responses[1].kind = "handoff" /\ raw_responses[2].kind = "tool_call"
    /\ Len(AgentStartCalls) = 2 /\ AgentStartCalls[2] = Call("on_agent_start", 2, "B")

\* the usage accumulated by n completed responses
UsageOfResponses(n) ==
    IF model_reports_usage THEN [requests |-> n, total_tokens |-> n * TokensPerResponse]
    ELSE NoUsage

\* C20: a turn whose stream ended without a response-completed event failed
\* with ModelBehaviorError: its last call is the model call (no on-llm-end
\* hook, no tool execution), raw_responses and the usage are those of the
\* turns before it, and the deltas received are in the event queue with no
\* completed event of that turn; the on-llm-end hooks and the tools are
\* reached only with a final response.
C20_NoFinalResponse ==
    /\ (pc = "done" /\ task_exception = "ModelBehaviorError") =>
          /\ final_response = "none"
          /\ call_log[Len(call_log)] = Call("model", current_turn, current_agent)
          /\ \A n \in 1..Len(call_log) :
                (call_log[n].turn = current_turn) => call_log[n].what \notin {"on_llm_end", "tools"}
          /\ Len(raw_responses) = current_turn - 1
          /\ usage = UsageOfResponses(current_turn - 1)
          /\ ~InQueue(RawResponsesStreamEvent(current_turn, "completed"))
          /\ Cardinality({n \in 1..Len(event_queue) : event_queue[n].item = "delta"}) = deltas
          /\ \A n \in 1..Len(event_queue) : event_queue[n].type # "run_item" \/
                                               event_queue[n].turn < current_turn
    /\ pc \in {"llm_end_hooks", "execute_tools"} =>
          /\ final_response # "none"
          /\ InQueue(RawResponsesStreamEvent(current_turn, "completed"))
    /\ \A n \in 1..Len(call_log) :
          call_log[n].what \in {"on_llm_end", "tools"} =>
              InQueue(RawResponsesStreamEvent(call_log[n].turn, "completed"))

C20_Witness ==
    /\ pc = "done" /\ task_exception = "ModelBehaviorError" /\ current_turn = 2
    /\ InQueue(RawResponsesStreamEvent(2, "delta")) /\ model_reports_usage
    /\ usage.requests = 1
\* the task is between the model call of a turn and the end of that turn
AfterModelCall == pc \in {"stream", "llm_end_hooks", "execute_tools"}

\* C21: the model input of turn k is the run's prepared input followed by
\* the input-item forms of every item generated in turns 1..k-1, in
\* generation order; so every tool call and tool output of an earlier turn
\* is in it.
C21_ModelInputCarriesAllItems ==
    /\ AfterModelCall =>
          /\ model_input = InputToNewInputList(sr_input) \o TurnItemsUpTo(current_turn - 1)
          /\ \A j \in 1..(current_turn - 1) :
                raw_responses[j].kind = "tool_call" =>
                    /\ InSeq(ToInputItem(RunItem(j, "tool_call_item")), model_input)
                    /\ InSeq(ToInputItem(RunItem(j, "tool_call_output_item")), model_input)
    /\ model_calls = 0 => model_input = <<>>
    /\ model_calls >= 1 => IsPrefix(InputToNewInputList(sr_input), model_input)

C21_Witness ==
    /\ pc = "stream" /\ current_turn = 2 /\ session /\ raw_responses[1].kind = "tool_call"
    /\ Len(model_input) = 5

CompletedEvents ==
    Cardinality({n \in 1..Len(event_queue) :
                    event_queue[n].type = "raw" /\ event_queue[n].item = "completed"})

\* C22 as stated: the request count of the cumulative usage equals the
\* number of response-completed events received so far.
C22_RequestsCountCompletedEvents ==
    usage.requests = CompletedEvents

\* C22 amended: the usage changes only in the step that receives a
\* response-completed event; its request count is the number of completed
\* events whose response reported usage (a response without usage adds the
\* empty Usage, requests included), its tokens their sum; with a reporting
\* model it is at least len(raw_responses), and one more when the turn's
\* response completed and the turn did not return.
C22_UsageOfReportedResponses ==
    /\ [](/\ usage = UsageOfResponses(CompletedEvents)
          /\ model_reports_usage =>
                /\ usage.requests = CompletedEvents
                /\ usage.total_tokens = CompletedEvents * TokensPerResponse
                /\ usage.requests >= Len(raw_responses)
                /\ usage.requests <= Len(raw_responses) + 1
                /\ (pc = "done" /\ raise_pc \in {"llm_end_hooks", "execute_tools"}) =>
                      usage.requests = Len(raw_responses) + 1
          /\ ~model_reports_usage => usage = NoUsage)
    /\ [][usage' # usage =>
             (pc = "stream" /\ final_response = "none" /\ final_response' # "none")]_vars

C22_Witness ==
    /\ pc = "done" /\ raise_pc = "execute_tools" /\ task_exception = "Exception"
    /\ model_reports_usage /\ usage.requests = 2 /\ Len(raw_responses) = 1
\* C23: when every awaited collaborator returns, the run terminates: the
\* loop counts at most max_turns + 1 turns and executes at most max_turns of
\* them, and eventually the task is done with is_complete set and a
\* terminal sentinel on the event queue.
C23_RunTerminates ==
    /\ [](current_turn <= max_turns + 1 /\ model_calls <= max_turns
            /\ Len(raw_responses) <= max_turns)
    /\ <>(pc = "done" /\ is_complete /\ SentinelCount >= 1)
    /\ [](pc = "done" => (is_complete /\ SentinelCount >= 1))

C23_Witness ==
    /\ pc = "done" /\ is_complete /\ exit_path = {"max_turns"} /\ max_turns = 2
    /\ model_calls = 2 /\ raw_responses[2].kind = "handoff"
\* C24: no step item is announced twice: the event queue holds no two equal
\* run-item events.
C24_ItemsAnnouncedOnce ==
    \A n, m \in 1..Len(event_queue) :
        (n # m /\ event_queue[n].type = "run_item") => event_queue[n] # event_queue[m]

CountIn(x, sq) == Cardinality({n \in 1..Len(sq) : sq[n] = x})

\* C25: with a session the history is read before the original input is
\* saved: the prepared input holds the new user message exactly once (and
\* each item of a list input once), and while the input is not prepared,
\* also when its preparation failed, the session holds the prior history
\* only.
C25_HistoryReadBeforeSave ==
    session =>
        /\ Prepared =>
              /\ CountIn(UserMessage("user"), sr_input.items) = 1
              /\ starting_input # StrInput => CountIn(UserMessage("user2"), sr_input.items) = 1
              /\ session_input_callback = "none" =>
                    sr_input.items = InitialHistory \o InputToNewInputList(starting_input)
        /\ pc \in {"start", "prepare", "save_input"} => session_items = InitialHistory
        /\ sr_input = starting_input => session_items = InitialHistory
        /\ task_exception = "UserError" => session_items = InitialHistory
        /\ (pc = "done" /\ raise_pc = "prepare") =>
              (sr_input = starting_input /\ session_items = InitialHistory)

C25_Witness ==
    /\ session /\ pc = "get_tools" /\ session_input_callback = "none"
    /\ Len(session_items) = 3 /\ Len(sr_input.items) = 3

\* the awaits inside _run_single_turn_streamed
InTurnAwaits == {"agent_start_hooks", "llm_start", "stream", "llm_end_hooks", "execute_tools"}

\* C26: when a turn raises, in its hooks, its model stream, the
\* classification of its response or its tool execution, the session holds
\* what the earlier turns left and no item of that turn, final_output is
\* unset, and raw_responses and new_items are those of the last completed
\* turn.
C26_FailedTurnLeavesNoTrace ==
    (pc = "done" /\ raise_pc \in InTurnAwaits
        /\ task_exception \in {"Exception", "ModelBehaviorError"}) =>
        /\ final_output = None
        /\ Len(raw_responses) = current_turn - 1
        /\ new_items = ItemsUpTo(current_turn - 1)
        /\ \A n \in 1..Len(new_items) : new_items[n].turn < current_turn
        /\ \A n \in 1..Len(session_items) : session_items[n].turn < current_turn
        /\ session => session_items = SessionAfterTurns(current_turn - 1)
        /\ ~session => session_items = InitialHistory

C26_Witness ==
    /\ pc = "done" /\ raise_pc = "execute_tools" /\ task_exception = "Exception"
    /\ session /\ current_turn = 2 /\ Len(raw_responses) = 1 /\ Len(session_items) = 5

\* the turn in flight, or about to start, when cancel-after-turn was requested
CancelledTurn == IF cancel_pc \in TurnPcs THEN cancel_turn ELSE cancel_turn + 1

\* C27: when cancel-after-turn was requested during turn t, or after the
\* checkpoint that precedes it, and turn t ended with a handoff, turn t is the last turn: no further model call is made
\* and no further turn counted; when the run ends without exception it ends
\* by cancellation with the agent-updated event of the new agent right
\* before the one sentinel, no span opened and no agent-start hook called for
\* the new agent, and one span fewer than agent-updated events.
C27_CancelledHandoff ==
    (cancel_mode = "after_turn" /\ cancel_pc \in TurnPcs \cup {"get_tools", "get_handoffs"}
        /\ Len(raw_responses) >= CancelledTurn
        /\ raw_responses[CancelledTurn].kind = "handoff") =>
        /\ Len(raw_responses) = CancelledTurn
        /\ current_turn = CancelledTurn
        /\ model_calls = CancelledTurn
        /\ pc \in {"save_turn", "done"}
        /\ \A n \in 1..Len(call_log) : call_log[n].turn <= CancelledTurn
        /\ (pc = "done" /\ task_exception = "none") =>
              /\ exit_path = {"cancel"}
              /\ SentinelCount = 1
              /\ LastEvent = QueueCompleteSentinel
              /\ event_queue[Len(event_queue) - 1] = AgentUpdatedStreamEvent(current_agent)
              /\ current_agent = turn_result.new_agent
              /\ Len(spans) = handoffs
              /\ Len(spans) = AgentUpdatedCount - 1
              /\ Len(AgentStartCalls) = handoffs
              /\ current_span = 0

C27_Witness ==
    /\ pc = "done" /\ exit_path = {"cancel"} /\ cancel_pc = "execute_tools"
    /\ cancel_turn = 1 /\ raw_responses[1].kind = "handoff" /\ current_agent = "B"
    /\ Len(spans) = 1 /\ max_turns = 2

\* C28: when the turn numbered max_turns ends with a handoff, the run ends
\* at the turn limit: a span was opened for the new agent, carries the
\* max-turns error and is finished, no agent-start hook and no model call
\* was made for the new agent, and current_turn is max_turns + 1.
C28_HandoffOnLastTurn ==
    (pc = "done" /\ "max_turns" \in exit_path /\ Len(raw_responses) = max_turns
        /\ raw_responses[max_turns].kind = "handoff") =>
        /\ current_turn = max_turns + 1
        /\ model_calls = max_turns
        /\ current_agent = turn_result.new_agent
        /\ Len(spans) = handoffs + 1
        /\ current_span = Len(spans)
        /\ spans[current_span].agent = current_agent
        /\ spans[current_span].error
        /\ spans[current_span].finished = 1
        /\ \A n \in 1..(Len(spans) - 1) : ~spans[n].error
        /\ Len(AgentStartCalls) = handoffs
        /\ \A n \in 1..Len(call_log) : call_log[n].turn <= max_turns
        /\ LastEvent = QueueCompleteSentinel
        /\ event_queue[Len(event_queue) - 1] = AgentUpdatedStreamEvent(current_agent)

C28_Witness ==
    /\ pc = "done" /\ exit_path = {"max_turns"} /\ max_turns = 2
    /\ raw_responses[1].kind = "tool_call" /\ raw_responses[2].kind = "handoff"
    /\ current_agent = "B" /\ Len(spans) = 2 /\ spans[2].error
\* the latest operation on the SandboxEnv is a tool call that has returned
CallReturned == sb_pc = "idle" /\ sb_returned # <<>>
StartsWithError(str) == Len(str) >= 1 /\ str[1] = "Error:"

\* C29: a tool call made without a session returns "Error: session is not
\* initialized" and sends no HTTP request; a call whose request fails or
\* whose first executed action has an error returns a string that starts
\* with "Error:" and leaves last_state and last_delta as they were; a call
\* that changes last_state or last_delta is a successful one, and a
\* successful call sets last_state to final_state when the body has one and
\* last_delta to the body's delta.
C29_FailuresAreValues ==
    CallReturned =>
        /\ NoSession(sb_before.session_id) =>
              /\ sb_returned = <<"Error:", "session is not initialized">>
              /\ sb_requests = sb_before.requests
              /\ sb_response = NoResponse
        /\ ~NoSession(sb_before.session_id) => sb_requests = sb_before.requests + 1
        /\ (sb_response = NoResponse \/ sb_response.kind = "http_error"
               \/ (sb_response.kind = "json" /\ sb_response.executed = "error")) =>
              /\ StartsWithError(sb_returned)
              /\ last_state = sb_before.last_state
              /\ last_delta = sb_before.last_delta
        /\ (last_state # sb_before.last_state \/ last_delta # sb_before.last_delta) =>
              (sb_response.kind = "json" /\ sb_response.executed \in {"empty", "result"})
        /\ (sb_response.kind = "json" /\ sb_response.executed \in {"empty", "result"}) =>
              /\ last_state = (IF sb_response.final_state = Absent THEN sb_before.last_state
                                ELSE sb_response.final_state)
              /\ last_delta = (IF sb_response.delta = Absent THEN NoValue
                                ELSE sb_response.delta)

C29_Witness ==
    /\ CallReturned /\ sb_response.kind = "json" /\ sb_response.executed = "error"
    /\ sb_response.final_state = "S1" /\ sb_response.delta = "D1"
    /\ last_state = "S0" /\ last_delta = NoValue /\ sb_returned[1] = "Error:"
\* C30: when all executions have finished, the process's working directory
\* is the one before the first started, and every execution ran its code
\* and listed its files, before and after, in its own workdir.
C30_WorkingDirectoryRestored ==
    (\A t \in Executions : py_pc[t] = "finished") =>
        /\ cwd = ProcessDir
        /\ \A t \in Executions :
              /\ ran_in[t] \in {"-", Workdir(t)}
              /\ files_before_in[t] \in {"-", Workdir(t)}
              /\ files_after_in[t] \in {"-", Workdir(t)}
====
